---- MODULE Spec2Model ----
(***************************************************************************)
(* Model of the "Buscar Pisos" actor: two variants of one linear pipeline  *)
(*   src/main.js           structured request to igolaizola/idealista-...  *)
(*   src/unnamed/part_000  URL request to dz_omar/idealista-scraper        *)
(* Both read the input, build a request, call the remote actor, fetch its  *)
(* dataset and push the items as their own output.                         *)
(*                                                                         *)
(* JavaScript values are tagged records [t |-> type, v |-> value]; strings *)
(* that the code transforms (the city) are sequences of one-character      *)
(* strings, so that toLowerCase / trim / replace are computed.             *)
(***************************************************************************)
EXTENDS Integers, Sequences, FiniteSets, TLC

\* ---------------------------------------------------------------- bounds
MaxCityLen == 4
MaxPrice == 2
MaxItems == 2

\* ------------------------------------------------------- program constants
DefaultMaxPrice == 200000
MaxItemsCeiling == 50

\* ------------------------------------------------------------- JS values
Undef == [t |-> "undef"]
Str(s) == [t |-> "str", v |-> s]
Num(n) == [t |-> "num", v |-> n]
Bool(b) == [t |-> "bool", v |-> b]
Arr(s) == [t |-> "arr", v |-> s]

\* JavaScript truthiness, as used by `a || b` and `if (a)`
Truthy(x) ==
    CASE x.t = "undef" -> FALSE
      [] x.t = "str" -> x.v # <<>>
      [] x.t = "num" -> x.v # 0
      [] x.t = "bool" -> x.v
      [] OTHER -> TRUE

\* a || b
Or(a, b) == IF Truthy(a) THEN a ELSE b

\* ------------------------------------------------------------- strings
Chars == {"B", "b", " "}
Madrid == <<"m", "a", "d", "r", "i", "d">>

RECURSIVE SeqsUpTo(_, _)
SeqsUpTo(S, n) ==
    IF n = 0 THEN {<<>>}
    ELSE LET shorter == SeqsUpTo(S, n - 1)
         IN shorter \cup {Append(s, c) : s \in {x \in shorter : Len(x) = n - 1}, c \in S}

ToLowerChar(c) == IF c = "B" THEN "b" ELSE c

\* String.prototype.toLowerCase
ToLowerCase(s) == [i \in 1..Len(s) |-> ToLowerChar(s[i])]

RECURSIVE TrimStart(_)
TrimStart(s) == IF s # <<>> /\ Head(s) = " " THEN TrimStart(Tail(s)) ELSE s

RECURSIVE TrimEnd(_)
TrimEnd(s) ==
    IF s # <<>> /\ s[Len(s)] = " " THEN TrimEnd(SubSeq(s, 1, Len(s) - 1)) ELSE s

\* String.prototype.trim
Trim(s) == TrimEnd(TrimStart(s))

\* s.replace(/ /g, "-"): every single space becomes one hyphen
ReplaceSpaces(s) == [i \in 1..Len(s) |-> IF s[i] = " " THEN "-" ELSE s[i]]

\* ------------------------------------------------------- input domain
Cities == SeqsUpTo(Chars, MaxCityLen)
Prices == (0 - 1)..MaxPrice
Records == {"r1", "r2"}

InputObjects ==
    [t : {"obj"},
     ciudad : {Undef} \cup {Str(c) : c \in Cities},
     precio_max : {Undef} \cup {Num(p) : p \in Prices},
     for_rent : {Undef, Bool(TRUE), Bool(FALSE)}]

\* what Actor.getInput() may resolve to: null, or an object with optional keys
RawInputs == {Undef} \cup InputObjects

EmptyObject == [t |-> "obj", ciudad |-> Undef, precio_max |-> Undef, for_rent |-> Undef]

\* what Actor.getDatasetItems() may resolve to: { items } with items possibly absent
ItemsValues == {Undef} \cup {Arr(s) : s \in SeqsUpTo(Records, MaxItems)}

VARIABLES variant, pc, rawInput, input, ciudad, maxPrice, forRent, request,
          callResult, defaultDatasetId, fetchResult, items, pushed, warnings,
          error, events

vars == <<variant, pc, rawInput, input, ciudad, maxPrice, forRent, request,
          callResult, defaultDatasetId, fetchResult, items, pushed, warnings,
          error, events>>

inputVars == <<rawInput, input, ciudad, maxPrice, forRent>>
remoteVars == <<callResult, defaultDatasetId, fetchResult, items>>
outputVars == <<pushed, warnings>>

\* ------------------------------------------------- request construction
RentPrefix == "https://www.idealista.com/alquiler-viviendas/"
SalePrefix == "https://www.idealista.com/venta-viviendas/"

\* mutant: the two operation literals swapped
buildIdealistaInputSwapped(c, mp, fr) ==
    [maxItems |-> MaxItemsCeiling,
     operation |-> IF Truthy(fr) THEN "sale" ELSE "rent",
     propertyType |-> "homes",
     country |-> "Spain",
     minPrice |-> 0,
     maxPrice |-> mp,
     locationQuery |-> c]

\* main.js buildIdealistaInput(ciudad, maxPrice, forRent)
buildIdealistaInput(c, mp, fr) ==
    [maxItems |-> MaxItemsCeiling,
     operation |-> IF Truthy(fr) THEN "rent" ELSE "sale",
     propertyType |-> "homes",
     country |-> "Spain",
     minPrice |-> 0,
     maxPrice |-> mp,
     locationQuery |-> c]

\* part_000 buildIdealistaUrl(ciudad, maxPrice, forRent); the URL is the
\* sequence of the template's pieces, the slug one character per element
buildIdealistaUrl(c, mp, fr) ==
    LET slug == ReplaceSpaces(Trim(ToLowerCase(c.v)))
        base == <<IF Truthy(fr) THEN RentPrefix ELSE SalePrefix>> \o slug \o <<"/">>
    IN IF Truthy(mp) /\ mp.v > 0
       THEN base \o <<"precio-hasta_", ToString(mp.v), "/">>
       ELSE base

\* part_000 payload of Actor.call
UrlPayload(url) ==
    [Url |-> <<url>>,
     proxyConfig |-> [useApifyProxy |-> TRUE, apifyProxyGroups |-> <<"RESIDENTIAL">>]]

\* ------------------------------------------------------------- actions
Init ==
    /\ variant \in {"main", "url"}
    /\ pc = "init"
    /\ rawInput = Undef
    /\ input = Undef
    /\ ciudad = Undef
    /\ maxPrice = Undef
    /\ forRent = Undef
    /\ request = Undef
    /\ callResult = "none"
    /\ defaultDatasetId = Undef
    /\ fetchResult = "none"
    /\ items = Undef
    /\ pushed = <<>>
    /\ warnings = 0
    /\ error = "none"
    /\ events = <<>>

\* await Actor.init()
ActorInit ==
    /\ pc = "init"
    /\ pc' = "getInput"
    /\ events' = Append(events, "init")
    /\ UNCHANGED <<variant, inputVars, request, remoteVars, outputVars, error>>

\* const input = await Actor.getInput() || {}; and the three defaults
ReadInput ==
    /\ pc = "getInput"
    /\ \E raw \in RawInputs :
         LET inp == Or(raw, EmptyObject)
         IN /\ rawInput' = raw
            /\ input' = inp
            /\ ciudad' = Or(inp.ciudad, Str(Madrid))
            /\ maxPrice' = Or(inp.precio_max, Num(DefaultMaxPrice))
            /\ forRent' = Or(inp.for_rent, Bool(FALSE))
    /\ pc' = "build"
    /\ events' = Append(events, "getInput")
    /\ UNCHANGED <<variant, request, remoteVars, outputVars, error>>

\* const childInput = buildIdealistaInput(...) / const urlBusqueda = buildIdealistaUrl(...)
BuildRequest ==
    /\ pc = "build"
    /\ request' = IF variant = "main"
                  THEN buildIdealistaInput(ciudad, maxPrice, forRent)
                  ELSE UrlPayload(buildIdealistaUrl(ciudad, maxPrice, forRent))
    /\ pc' = "call"
    /\ events' = Append(events, "build")
    /\ UNCHANGED <<variant, inputVars, remoteVars, outputVars, error>>

\* Actor.call(...) is issued
CallIssue ==
    /\ pc = "call"
    /\ pc' = "awaitCall"
    /\ callResult' = "pending"
    /\ events' = Append(events, "call")
    /\ UNCHANGED <<variant, inputVars, request, defaultDatasetId, fetchResult,
                   items, outputVars, error>>

\* the remote run finishes: const { defaultDatasetId } = await Actor.call(...)
CallResolve ==
    /\ pc = "awaitCall"
    /\ callResult' = "resolved"
    /\ defaultDatasetId' = Str(<<"ds1">>)
    /\ pc' = "fetch"
    /\ events' = Append(events, "callResolved")
    /\ UNCHANGED <<variant, inputVars, request, fetchResult, items, outputVars, error>>

\* mutant: the rejection is caught and the pipeline carries on
CallRejectSwallowed ==
    /\ pc = "awaitCall"
    /\ callResult' = "rejected"
    /\ pc' = "fetch"
    /\ UNCHANGED <<variant, inputVars, request, defaultDatasetId, fetchResult,
                   items, outputVars, error, events>>

\* mutant: the rejection is caught and the call is issued again
CallRejectRetry ==
    /\ pc = "awaitCall"
    /\ callResult' = "rejected"
    /\ pc' = "call"
    /\ UNCHANGED <<variant, inputVars, request, defaultDatasetId, fetchResult,
                   items, outputVars, error, events>>

\* the remote call rejects: the top-level await throws, nothing catches it
CallReject ==
    /\ pc = "awaitCall"
    /\ callResult' = "rejected"
    /\ error' = "CallError"
    /\ pc' = "crashed"
    /\ UNCHANGED <<variant, inputVars, request, defaultDatasetId, fetchResult,
                   items, outputVars, events>>

\* Actor.getDatasetItems(defaultDatasetId) is issued
FetchIssue ==
    /\ pc = "fetch"
    /\ pc' = "awaitFetch"
    /\ fetchResult' = "pending"
    /\ events' = Append(events, "fetch")
    /\ UNCHANGED <<variant, inputVars, request, callResult, defaultDatasetId,
                   items, outputVars, error>>

\* const { items } = await Actor.getDatasetItems(...)
FetchResolve ==
    /\ pc = "awaitFetch"
    /\ \E its \in ItemsValues : items' = its
    /\ fetchResult' = "resolved"
    /\ pc' = "logCount"
    /\ events' = Append(events, "fetchResolved")
    /\ UNCHANGED <<variant, inputVars, request, callResult, defaultDatasetId,
                   outputVars, error>>

\* the fetch rejects: uncaught
FetchReject ==
    /\ pc = "awaitFetch"
    /\ fetchResult' = "rejected"
    /\ error' = "FetchError"
    /\ pc' = "crashed"
    /\ UNCHANGED <<variant, inputVars, request, callResult, defaultDatasetId,
                   items, outputVars, events>>

\* console.log(`... ${items.length} ...`): reading .length of undefined throws
LogCount ==
    /\ pc = "logCount"
    /\ IF items.t = "undef"
       THEN /\ error' = "TypeError"
            /\ pc' = "crashed"
       ELSE /\ pc' = "relay"
            /\ UNCHANGED error
    /\ UNCHANGED <<variant, inputVars, request, remoteVars, outputVars, events>>

\* mutant: items.length >= 0
RelayConditionNonStrict(its) == Truthy(its) /\ Len(its.v) >= 0

\* items && items.length > 0
RelayCondition(its) == Truthy(its) /\ Len(its.v) > 0

\* mutant: the first record is dropped before publishing
RelayDropFirst ==
    /\ pc = "relay"
    /\ IF RelayCondition(items)
       THEN /\ pushed' = Append(pushed, Tail(items.v))
            /\ events' = Append(events, "pushData")
            /\ pc' = "awaitPush"
            /\ UNCHANGED warnings
       ELSE /\ warnings' = warnings + 1
            /\ pc' = "exit"
            /\ UNCHANGED <<pushed, events>>
    /\ UNCHANGED <<variant, inputVars, request, remoteVars, error>>

\* if (...) { await Actor.pushData(items) } else { console.warn(...) }
Relay ==
    /\ pc = "relay"
    /\ IF RelayCondition(items)
       THEN /\ pushed' = Append(pushed, items.v)
            /\ events' = Append(events, "pushData")
            /\ pc' = "awaitPush"
            /\ UNCHANGED warnings
       ELSE /\ warnings' = warnings + 1
            /\ pc' = "exit"
            /\ UNCHANGED <<pushed, events>>
    /\ UNCHANGED <<variant, inputVars, request, remoteVars, error>>

\* await Actor.pushData(items) resolves
PushResolve ==
    /\ pc = "awaitPush"
    /\ pc' = "exit"
    /\ UNCHANGED <<variant, inputVars, request, remoteVars, outputVars, error, events>>

\* await Actor.pushData(items) rejects: uncaught
PushReject ==
    /\ pc = "awaitPush"
    /\ error' = "PushError"
    /\ pc' = "crashed"
    /\ UNCHANGED <<variant, inputVars, request, remoteVars, outputVars, events>>

\* await Actor.exit()
ActorExit ==
    /\ pc = "exit"
    /\ pc' = "done"
    /\ events' = Append(events, "exit")
    /\ UNCHANGED <<variant, inputVars, request, remoteVars, outputVars, error>>

Next ==
    \/ ActorInit
    \/ ReadInput
    \/ BuildRequest
    \/ CallIssue
    \/ CallResolve
    \/ CallReject
    \/ FetchIssue
    \/ FetchResolve
    \/ FetchReject
    \/ LogCount
    \/ Relay
    \/ PushResolve
    \/ PushReject
    \/ ActorExit

Spec == Init /\ [][Next]_vars

TypeOK ==
    /\ variant \in {"main", "url"}
    /\ pc \in {"init", "getInput", "build", "call", "awaitCall", "fetch", "awaitFetch",
               "logCount", "relay", "awaitPush", "exit", "done", "crashed"}
    /\ rawInput \in RawInputs
    /\ items \in ItemsValues
    /\ warnings \in 0..1
    /\ error \in {"none", "CallError", "FetchError", "TypeError", "PushError"}
\* ------------------------------------------------ reading a built request
RequestBuilt == pc \notin {"init", "getInput", "build"}

\* the URL handed to the remote actor (URL variant)
RequestUrl == request.Url[1]

\* the price-ceiling field as the remote side sees it
HasPriceCeiling ==
    IF variant = "main"
    THEN request.maxPrice.t # "undef"
    ELSE \E i \in 1..Len(RequestUrl) : RequestUrl[i] = "precio-hasta_"

\* index of the "/" that closes the slug
SlugEnd == CHOOSE k \in 2..Len(RequestUrl) :
               /\ RequestUrl[k] = "/"
               /\ \A j \in 2..(k - 1) : RequestUrl[j] # "/"

\* the location query as the remote side sees it
LocationQuery ==
    IF variant = "main"
    THEN request.locationQuery.v
    ELSE SubSeq(RequestUrl, 2, SlugEnd - 1)

\* every run of spaces becomes one hyphen
RECURSIVE HyphenateRuns(_)
HyphenateRuns(s) ==
    IF s = <<>> THEN <<>>
    ELSE IF Head(s) = " " THEN <<"-">> \o HyphenateRuns(TrimStart(s))
    ELSE <<Head(s)>> \o HyphenateRuns(Tail(s))

Count(e) == Cardinality({i \in 1..Len(events) : events[i] = e})

\* every occurrence of b in events has an a somewhere before it
Precedes(a, b) ==
    \A j \in 1..Len(events) : events[j] = b => \E i \in 1..(j - 1) : events[i] = a

CityGiven == input.t = "obj" /\ Truthy(input.ciudad)
PriceGiven == input.t = "obj" /\ input.precio_max.t = "num"
RentFlag == input.t = "obj" /\ Truthy(input.for_rent)

RelayDecided == pc \in {"awaitPush", "exit", "done"} \/ error = "PushError"

\* ------------------------------------------------------------- claims

\* C1: for every non-empty fetched record sequence, the sequence passed to
\* Actor.pushData is exactly that sequence and it is published exactly once.
C1_RelayIdentity ==
    /\ Len(pushed) <= 1
    /\ (RelayDecided /\ items.t = "arr" /\ items.v # <<>>) => pushed = <<items.v>>

C1_Witness ==
    /\ pc = "done"
    /\ items.t = "arr"
    /\ Len(items.v) = 2
    /\ items.v[1] # items.v[2]
    /\ pushed = <<items.v>>

\* C2: if the remote call fails, the run ends in a failure state that reports
\* the error and Actor.pushData is never called in that run.
C2_CallFailureIsFatal ==
    callResult = "rejected" =>
        /\ pc = "crashed"
        /\ error = "CallError"
        /\ pushed = <<>>
        /\ Count("pushData") = 0

C2_Witness == callResult = "rejected" /\ pc = "crashed" /\ variant = "url"

\* C3: when the input's maximum price is absent, zero or negative, the request
\* carries no price ceiling.
C3_NoCeilingWithoutPositivePrice ==
    (RequestBuilt /\ (~PriceGiven \/ input.precio_max.v <= 0)) => ~HasPriceCeiling

\* C4: the location query is the lower-cased, trimmed city; in the URL variant
\* each run of spaces is additionally replaced by one hyphen.
C4_LocationQueryNormalized ==
    (RequestBuilt /\ CityGiven) =>
        LocationQuery = IF variant = "main"
                        THEN Trim(ToLowerCase(input.ciudad.v))
                        ELSE HyphenateRuns(Trim(ToLowerCase(input.ciudad.v)))

\* C5: the location query is never empty, and it is "madrid" when the city is
\* missing or empty.
C5_LocationQueryNeverEmpty ==
    RequestBuilt =>
        /\ LocationQuery # <<>>
        /\ ~CityGiven => LocationQuery = Madrid

\* C6: an empty fetched sequence publishes nothing, emits exactly one warning,
\* raises no error and the run goes on to Actor.exit.
C6_EmptyResultWarnsOnce ==
    (fetchResult = "resolved" /\ items.t = "arr" /\ items.v = <<>>) =>
        /\ pushed = <<>>
        /\ Count("pushData") = 0
        /\ error = "none"
        /\ pc \in {"logCount", "relay", "exit", "done"}
        /\ warnings = IF pc \in {"exit", "done"} THEN 1 ELSE 0
        /\ pc = "done" => events[Len(events)] = "exit"

C6_Witness ==
    /\ pc = "done"
    /\ items.t = "arr"
    /\ items.v = <<>>
    /\ warnings = 1
    /\ pushed = <<>>

\* C7: a fetch that resolves without an items value publishes nothing, emits
\* the no-results warning and completes without an error, as for an empty one.
C7_AbsentItemsWarn ==
    (fetchResult = "resolved" /\ items.t = "undef") =>
        /\ pushed = <<>>
        /\ error = "none"
        /\ pc \in {"logCount", "relay", "exit", "done"}
        /\ warnings = IF pc \in {"exit", "done"} THEN 1 ELSE 0

\* C8: a true rent flag yields the rent operation, a false or absent flag the
\* sale operation, and no other value occurs.
C8_OperationTotal ==
    RequestBuilt =>
        IF variant = "main"
        THEN request.operation = IF RentFlag THEN "rent" ELSE "sale"
        ELSE RequestUrl[1] = IF RentFlag THEN RentPrefix ELSE SalePrefix

C8_Witness ==
    /\ RequestBuilt
    /\ variant = "main"
    /\ input.t = "obj"
    /\ input.for_rent = Bool(TRUE)
    /\ request.operation = "rent"

\* C9: the remote call is issued once and only after the request is built, the
\* fetch once and only after the call resolved with a handle, pushData once and
\* only after the fetch resolved.
C9_PipelineOrder ==
    /\ Count("call") <= 1
    /\ Count("fetch") <= 1
    /\ Count("pushData") <= 1
    /\ Len(pushed) = Count("pushData")
    /\ Precedes("build", "call")
    /\ Precedes("callResolved", "fetch")
    /\ Precedes("fetchResolved", "pushData")
    /\ callResult # "none" => (Count("call") = 1 /\ RequestBuilt)
    /\ fetchResult # "none" => (callResult = "resolved" /\ defaultDatasetId.t = "str")
    /\ pushed # <<>> => fetchResult = "resolved"

C9_Witness ==
    /\ pc = "done"
    /\ events = <<"init", "getInput", "build", "call", "callResolved", "fetch",
                  "fetchResolved", "pushData", "exit">>

\* C10: every run in which Actor.init completed reaches Actor.exit, also when
\* the remote call or the fetch fails: a run never ends without Actor.exit.
C10_ExitOnEveryPath ==
    pc \in {"done", "crashed"} => Count("exit") = 1
====
